---- MODULE Spec2Model ----
(***************************************************************************)
(* Model of app.py, the NIGCOMSAT regional broadband coverage dashboard.   *)
(*                                                                         *)
(* The script is re-executed from top to bottom on every widget change.    *)
(* One execution is one action: it loads the (cached) dataset, filters it, *)
(* derives the four summary metrics, the jittered map frame, the regional  *)
(* aggregates and the CSV text.                                            *)
(*                                                                         *)
(* Numbers.  Python floats are modelled as exact fixed-point values: a     *)
(* data float v is stored as the integer v * Resolution, a coordinate as   *)
(* the integer v * 2 * Resolution.  Results of divisions (means, deltas)   *)
(* are exact rationals <<num, den>>; <<0, 0>> is NaN.                      *)
(*                                                                         *)
(* Random source.  np.random is a pseudo random generator: a hidden state  *)
(* seeded from the environment, advanced by every draw.  It is modelled as *)
(* a generator with RngMod states; the seed is chosen freely in Init.      *)
(***************************************************************************)
EXTENDS Integers, Sequences, FiniteSets, TLC

\* ---------------------------------------------------------------- bounds
\* number of states of the pseudo random generator
RngMod == 6
\* a float of the data is a multiple of 1/Resolution
Resolution == 2
\* the slider positions explored are the multiples of ThresholdStep, and 100
ThresholdStep == 20

\* ------------------------------------------------------- static reference
\* regions (dict of generate_sample_data, in insertion order)
regions ==
  << [name |-> "North Central",
      states |-> <<"Benue", "Kogi", "Kwara", "Nasarawa", "Niger", "Plateau", "FCT">>],
     [name |-> "North East",
      states |-> <<"Adamawa", "Bauchi", "Borno", "Gombe", "Taraba", "Yobe">>],
     [name |-> "North West",
      states |-> <<"Jigawa", "Kaduna", "Kano", "Katsina", "Kebbi", "Sokoto", "Zamfara">>],
     [name |-> "South East",
      states |-> <<"Abia", "Anambra", "Ebonyi", "Enugu", "Imo">>],
     [name |-> "South South",
      states |-> <<"Akwa Ibom", "Bayelsa", "Cross River", "Delta", "Edo", "Rivers">>],
     [name |-> "South West",
      states |-> <<"Ekiti", "Lagos", "Ogun", "Ondo", "Osun", "Oyo">>] >>

\* the keys of the record appended per state, in insertion order
DataColumns ==
  <<"Region", "State", "Population", "Coverage_Percentage", "Connected_Users",
    "Avg_Speed_Mbps", "Latency_ms", "Last_Update">>

\* nigeria_coords, in half degrees (8.5 is 17)
nigeria_coords ==
  [r \in {regions[i].name : i \in 1..Len(regions)} |->
     CASE r = "North Central" -> [lat |-> 17, lon |-> 16]
       [] r = "North East"    -> [lat |-> 21, lon |-> 25]
       [] r = "North West"    -> [lat |-> 24, lon |-> 16]
       [] r = "South East"    -> [lat |-> 11, lon |-> 15]
       [] r = "South South"   -> [lat |-> 10, lon |-> 12]
       [] r = "South West"    -> [lat |-> 14, lon |-> 8]]

\* ----------------------------------------------------------- random source
\* the generator state after k draws (an additive generator)
RngSkip(s, k) == (s + 5 * k) % RngMod

\* np.random.randint(lo, hi): an integer of [lo, hi); the generator states
\* are spread over the range so that lo and hi - 1 are both drawn
randint(s, lo, hi) == lo + (s * (hi - lo - 1)) \div (RngMod - 1)

\* np.random.uniform(lo, hi): a float of [lo, hi), in units of 1/den; the
\* generator states are spread so that lo and the last value below hi are drawn
uniform(s, lo, hi, den) == lo * den + (s * ((hi - lo) * den - 1)) \div (RngMod - 1)

\* ------------------------------------------------------------- data frames
\* a data frame: the column labels in order, the row labels, the rows
Frame(columns, index, rows) == [columns |-> columns, index |-> index, rows |-> rows]

RECURSIVE TruePositions(_, _)
\* the positions i >= from at which the boolean mask is true, ascending
TruePositions(mask, from) ==
  IF from > Len(mask) THEN <<>>
  ELSE (IF mask[from] THEN <<from>> ELSE <<>>) \o TruePositions(mask, from + 1)

\* frame[mask]: the rows at which mask is true, with their labels, in order
BoolIndex(frame, mask) ==
  LET pos == TruePositions(mask, 1)
  IN  Frame(frame.columns,
            [i \in 1..Len(pos) |-> frame.index[pos[i]]],
            [i \in 1..Len(pos) |-> frame.rows[pos[i]]])

RECURSIVE SumCol(_, _, _)
\* Series.sum() of column c over rows i..Len(rows)
SumCol(rows, c, i) == IF i > Len(rows) THEN 0 ELSE rows[i][c] + SumCol(rows, c, i + 1)

\* Series.mean() of a float column: sum / count, NaN (<<0, 0>>) on no rows
MeanCol(rows, c) == <<SumCol(rows, c, 1), Len(rows) * Resolution>>

\* a - b on floats; NaN if either is NaN
FSub(a, b) ==
  IF a[2] = 0 \/ b[2] = 0 THEN <<0, 0>>
  ELSE <<a[1] * b[2] - b[1] * a[2], a[2] * b[2]>>

\* ------------------------------------------------------------ formatting
\* a digit-padded group of three, as between the separators of f"{n:,}"
Pad3(k) == IF k < 10 THEN "00" \o ToString(k)
           ELSE IF k < 100 THEN "0" \o ToString(k) ELSE ToString(k)

RECURSIVE Commas(_)
\* f"{n:,}" of an integer n >= 0
Commas(n) == IF n < 1000 THEN ToString(n)
             ELSE Commas(n \div 1000) \o "," \o Pad3(n % 1000)

\* f"{x:.1f}" of a float x = <<num, den>>: one decimal, round half to even,
\* the sign of a negative kept even when it rounds to zero, "nan" for NaN
Fmt1(x) ==
  IF x[2] = 0 THEN "nan"
  ELSE LET a    == IF x[1] < 0 THEN 0 - x[1] ELSE x[1]
           q    == a \div x[2]
           r10  == (a % x[2]) * 10
           t0   == q * 10 + r10 \div x[2]
           rem2 == 2 * (r10 % x[2])
           t    == IF rem2 > x[2] \/ (rem2 = x[2] /\ t0 % 2 = 1) THEN t0 + 1 ELSE t0
       IN  (IF x[1] < 0 THEN "-" ELSE "") \o ToString(t \div 10) \o "." \o ToString(t % 10)

\* the text to_csv writes for the float v/den: one text per value
FloatText(v, den) ==
  ToString(v \div den) \o "+" \o ToString(v % den) \o "/" \o ToString(den)

\* the text to_csv writes for the cell of column c holding v
CellText(c, v) ==
  IF c \in {"Region", "State"} THEN v
  ELSE IF c \in {"Population", "Connected_Users", "Last_Update"} THEN ToString(v)
  ELSE IF c \in {"lat", "lon"} THEN FloatText(v, 2 * Resolution)
  ELSE FloatText(v, Resolution)

\* ------------------------------------------------------------- generator
RECURSIVE PairsFrom(_, _)
\* the (region, state) pairs the two nested loops visit, from region r, state k
PairsFrom(r, k) ==
  IF r > Len(regions) THEN <<>>
  ELSE IF k > Len(regions[r].states) THEN PairsFrom(r + 1, 1)
  ELSE <<[Region |-> regions[r].name, State |-> regions[r].states[k]]>>
       \o PairsFrom(r, k + 1)

\* mutant: the population divided by the coverage fraction, not multiplied
ConnectedUsersDivided(population, coverage) ==
  (population * 100 * Resolution) \div coverage

\* int(population * (coverage_percentage / 100)), coverage in units of 1/Resolution
ConnectedUsers(population, coverage) ==
  LET d == 100 * Resolution
  IN  (population \div d) * coverage + ((population % d) * coverage) \div d

\* the record appended for one state; s is the generator state before its draws
GenRow(pair, s) ==
  LET population          == randint(s, 500000, 8000000)
      coverage_percentage == uniform(RngSkip(s, 1), 20, 95, Resolution)
      connected_users     == ConnectedUsers(population, coverage_percentage)
      avg_speed           == uniform(RngSkip(s, 2), 5, 50, Resolution)
      latency             == uniform(RngSkip(s, 3), 20, 150, Resolution)
  IN  [Region              |-> pair.Region,
       State               |-> pair.State,
       Population          |-> population,
       Coverage_Percentage |-> coverage_percentage,
       Connected_Users     |-> connected_users,
       Avg_Speed_Mbps      |-> avg_speed,
       Latency_ms          |-> latency,
       \* days relative to the time of generation
       Last_Update         |-> 0 - randint(RngSkip(s, 4), 0, 30)]

\* the body of generate_sample_data, run with the random source in state s
GenerateBody(s) ==
  LET pairs == PairsFrom(1, 1)
      n     == Len(pairs)
  IN  [frame |-> Frame(DataColumns,
                       [i \in 1..n |-> i - 1],
                       [i \in 1..n |-> GenRow(pairs[i], RngSkip(s, 5 * (i - 1)))]),
       rng   |-> RngSkip(s, 5 * n)]

\* mutant: generate_sample_data without the @st.cache_data decorator
generate_uncached(c, s) ==
  LET g == GenerateBody(s)
  IN  [df |-> g.frame, cache |-> <<g.frame>>, rng |-> g.rng, ran |-> 1]

\* @st.cache_data generate_sample_data(): the body runs on a miss only; the
\* caller gets a copy of the stored frame.  c is the cache, <<>> when empty.
generate_sample_data(c, s) ==
  IF c = <<>>
  THEN LET g == GenerateBody(s)
       IN  [df |-> g.frame, cache |-> <<g.frame>>, rng |-> g.rng, ran |-> 1]
  ELSE [df |-> c[1], cache |-> c, rng |-> s, ran |-> 0]

\* ---------------------------------------------------------------- sidebar
RECURSIVE Unique(_, _, _)
\* Series.unique(): the distinct values of column c, in order of appearance
Unique(rows, c, i) ==
  IF i = 0 THEN <<>>
  ELSE LET before == Unique(rows, c, i - 1)
       IN  IF \E j \in 1..Len(before) : before[j] = rows[i][c]
           THEN before ELSE Append(before, rows[i][c])

\* the options of the region selectbox
RegionOptions(frame) == <<"All Regions">> \o Unique(frame.rows, "Region", Len(frame.rows))

\* the positions of the coverage slider that are explored
SliderValues == {t \in 0..100 : t % ThresholdStep = 0 \/ t = 100}

\* ----------------------------------------------------------------- filter
\* mutant: the region selection is not applied
FilterIgnoringRegion(frame, region, threshold) ==
  BoolIndex(frame,
            [i \in 1..Len(frame.rows) |->
               frame.rows[i].Coverage_Percentage >= threshold * Resolution])

\* mutant: the region selection is applied to "All Regions" as well
FilterAlwaysByRegion(frame, region, threshold) ==
  LET by_region ==
        BoolIndex(frame, [i \in 1..Len(frame.rows) |-> frame.rows[i].Region = region])
  IN  BoolIndex(by_region,
                [i \in 1..Len(by_region.rows) |->
                   by_region.rows[i].Coverage_Percentage >= threshold * Resolution])

\* mutant: the coverage test keeps the rows at or below the threshold
FilterBelow(frame, region, threshold) ==
  LET by_region ==
        IF region # "All Regions"
        THEN BoolIndex(frame, [i \in 1..Len(frame.rows) |-> frame.rows[i].Region = region])
        ELSE frame
  IN  BoolIndex(by_region,
                [i \in 1..Len(by_region.rows) |->
                   by_region.rows[i].Coverage_Percentage <= threshold * Resolution])

\* mutant: the coverage mask is computed on the frame before the region
\* selection and applied by position to the frame after it
FilterStaleMask(frame, region, threshold) ==
  LET by_region ==
        IF region # "All Regions"
        THEN BoolIndex(frame, [i \in 1..Len(frame.rows) |-> frame.rows[i].Region = region])
        ELSE frame
  IN  BoolIndex(by_region,
                [i \in 1..Len(by_region.rows) |->
                   frame.rows[i].Coverage_Percentage >= threshold * Resolution])

\* filtered_df: the copy of df narrowed by region, then by coverage
Filter(frame, region, threshold) ==
  LET by_region ==
        IF region # "All Regions"
        THEN BoolIndex(frame, [i \in 1..Len(frame.rows) |-> frame.rows[i].Region = region])
        ELSE frame
  IN  BoolIndex(by_region,
                [i \in 1..Len(by_region.rows) |->
                   by_region.rows[i].Coverage_Percentage >= threshold * Resolution])

\* ---------------------------------------------------------------- metrics
\* the delta of the "Total Connected Users" metric
UsersDelta(fdf, full) == Fmt1(<<SumCol(fdf.rows, "Connected_Users", 1), 1000000>>) \o "M"

\* the four st.metric calls: label, value and delta as rendered
Metrics(fdf, full) ==
  LET total_coverage == MeanCol(fdf.rows, "Coverage_Percentage")
      total_users    == SumCol(fdf.rows, "Connected_Users", 1)
      avg_speed      == MeanCol(fdf.rows, "Avg_Speed_Mbps")
      avg_latency    == MeanCol(fdf.rows, "Latency_ms")
  IN  << [label |-> "Average Coverage",
          value |-> Fmt1(total_coverage) \o "%",
          delta |-> Fmt1(FSub(total_coverage,
                              MeanCol(full.rows, "Coverage_Percentage"))) \o "%"],
         [label |-> "Total Connected Users",
          value |-> Commas(total_users),
          delta |-> UsersDelta(fdf, full)],
         [label |-> "Average Speed",
          value |-> Fmt1(avg_speed) \o " Mbps",
          delta |-> Fmt1(FSub(avg_speed, MeanCol(full.rows, "Avg_Speed_Mbps"))) \o " Mbps"],
         [label |-> "Average Latency",
          value |-> Fmt1(avg_latency) \o " ms",
          delta |-> Fmt1(FSub(avg_latency, MeanCol(full.rows, "Latency_ms"))) \o " ms"] >>

\* -------------------------------------------------------------- map frame
\* a row with the columns lat and lon added (coordinates in units of
\* 1/(2 * Resolution) degree): centroid of the region plus uniform(-1, 1)
WithCoordinates(row, slat, slon) ==
  [c \in DOMAIN row \cup {"lat", "lon"} |->
     IF c = "lat"
     THEN nigeria_coords[row.Region].lat * Resolution + uniform(slat, -1, 1, 2 * Resolution)
     ELSE IF c = "lon"
     THEN nigeria_coords[row.Region].lon * Resolution + uniform(slon, -1, 1, 2 * Resolution)
     ELSE row[c]]

\* mutant: map_df = filtered_df without .copy(), the columns are added to
\* the frame both names are bound to
MapFrameNoCopy(fdf, s) ==
  LET n      == Len(fdf.rows)
      mapped == Frame(fdf.columns \o <<"lat", "lon">>,
                      fdf.index,
                      [i \in 1..n |->
                         WithCoordinates(fdf.rows[i], RngSkip(s, i - 1),
                                         RngSkip(s, n + i - 1))])
  IN  [filtered_df |-> mapped, map_df |-> mapped, rng |-> RngSkip(s, 2 * n)]

\* map_df = filtered_df.copy() with the columns lat, then lon, assigned; the
\* lambda draws once per row, all lat first.  Returns the frame the name
\* filtered_df is bound to afterwards, map_df and the random source's state.
MapFrame(fdf, s) ==
  LET n == Len(fdf.rows)
  IN  [filtered_df |-> fdf,
       map_df      |-> Frame(fdf.columns \o <<"lat", "lon">>,
                             fdf.index,
                             [i \in 1..n |->
                                WithCoordinates(fdf.rows[i], RngSkip(s, i - 1),
                                                RngSkip(s, n + i - 1))]),
       rng         |-> RngSkip(s, 2 * n)]

\* ------------------------------------------------------------ aggregation
\* the region names in the sorted order groupby gives its keys
SortedRegionNames ==
  <<"North Central", "North East", "North West", "South East", "South South", "South West">>

\* mutant: groupby over a categorical key with observed=False, a group for
\* every region whether present or not
GroupKeysAllRegions(fdf) == SortedRegionNames

\* the group keys of groupby('Region'): the values present, sorted
GroupKeys(fdf) ==
  SelectSeq(SortedRegionNames, LAMBDA r : \E i \in 1..Len(fdf.rows) : fdf.rows[i].Region = r)

\* the rows of one group
GroupRows(fdf, r) == SelectSeq(fdf.rows, LAMBDA row : row.Region = r)

\* groupby('Region').agg({mean, sum, count}).reset_index()
RegionalAvg(fdf) ==
  LET keys == GroupKeys(fdf)
  IN  Frame(<<"Region", "Coverage_Percentage", "Connected_Users", "State">>,
            [i \in 1..Len(keys) |-> i - 1],
            [i \in 1..Len(keys) |->
               LET g == GroupRows(fdf, keys[i])
               IN  [Region              |-> keys[i],
                    Coverage_Percentage |-> MeanCol(g, "Coverage_Percentage"),
                    Connected_Users     |-> SumCol(g, "Connected_Users", 1),
                    State               |-> Len(g)]])

\* groupby('Region')['Connected_Users'].sum().reset_index()
RegionalUsers(fdf) ==
  LET keys == GroupKeys(fdf)
  IN  Frame(<<"Region", "Connected_Users">>,
            [i \in 1..Len(keys) |-> i - 1],
            [i \in 1..Len(keys) |->
               [Region          |-> keys[i],
                Connected_Users |-> SumCol(GroupRows(fdf, keys[i]), "Connected_Users", 1)]])

\* -------------------------------------------------------------------- csv
\* filtered_df.to_csv(index=False): the header, then one line of cells per row
ToCsv(fdf) ==
  [header |-> fdf.columns,
   lines  |-> [i \in 1..Len(fdf.rows) |->
                 [j \in 1..Len(fdf.columns) |->
                    CellText(fdf.columns[j], fdf.rows[i][fdf.columns[j]])]]]

\* ------------------------------------------------------------------ state
VARIABLES
  rng,                \* state of np.random
  cache,              \* store of st.cache_data for generate_sample_data
  generations,        \* how often the body of generate_sample_data has run
  rendered,           \* the script has run at least once
  df,
  selected_region,
  coverage_threshold,
  filtered_df,
  metrics,
  map_df,
  regional_avg,
  regional_users,
  csv

vars == <<rng, cache, generations, rendered, df, selected_region, coverage_threshold,
          filtered_df, metrics, map_df, regional_avg, regional_users, csv>>

\* a frame with no column and no row, for names not bound yet
NoFrame == Frame(<<>>, <<>>, <<>>)

\* the server has started, the script has not run: the widgets hold their
\* defaults and the random source some seed
Init ==
  /\ rng \in 0..(RngMod - 1)
  /\ cache = <<>>
  /\ generations = 0
  /\ rendered = FALSE
  /\ df = NoFrame
  /\ selected_region = "All Regions"
  /\ coverage_threshold = 0
  /\ filtered_df = NoFrame
  /\ metrics = <<>>
  /\ map_df = NoFrame
  /\ regional_avg = NoFrame
  /\ regional_users = NoFrame
  /\ csv = [header |-> <<>>, lines |-> <<>>]

\* one execution of the script with the widgets at (region, threshold)
Script(region, threshold) ==
  \E loaded \in {generate_sample_data(cache, rng)} :
    \E fdf \in {Filter(loaded.df, region, threshold)} :
      \E tab1 \in {MapFrame(fdf, loaded.rng)} :
        /\ region \in {RegionOptions(loaded.df)[i] : i \in 1..Len(RegionOptions(loaded.df))}
        /\ threshold \in 0..100
        /\ cache' = loaded.cache
        /\ generations' = generations + loaded.ran
        /\ df' = loaded.df
        /\ selected_region' = region
        /\ coverage_threshold' = threshold
        /\ metrics' = Metrics(fdf, loaded.df)
        /\ map_df' = tab1.map_df
        /\ rng' = tab1.rng
        /\ filtered_df' = tab1.filtered_df
        /\ regional_avg' = RegionalAvg(tab1.filtered_df)
        /\ regional_users' = RegionalUsers(tab1.filtered_df)
        /\ csv' = ToCsv(tab1.filtered_df)
        /\ rendered' = TRUE

\* the first execution of a session: the widgets hold their defaults
FirstRun ==
  /\ ~rendered
  /\ Script("All Regions", 0)

\* a widget changed: the script runs again with the new widget values
Rerun ==
  /\ rendered
  /\ \E region \in {"All Regions"} \cup {regions[i].name : i \in 1..Len(regions)} :
       \E threshold \in SliderValues :
         Script(region, threshold)

Next == FirstRun \/ Rerun

Spec == Init /\ [][Next]_vars

\* ================================================================ claims
\* the set of the elements of a sequence
Range(seq) == {seq[i] : i \in 1..Len(seq)}

\* the column labels of the CSV export as documented
DocumentedCsvColumns ==
  <<"Region", "State", "Coverage_Percentage", "Connected_Users", "Avg_Speed_Mbps",
    "Latency_ms", "Last_Update">>

\* C1: the filtered set is a subsequence of the dataset, in dataset order
\* (its row labels increase and each row is the dataset's row of that label),
\* and every row of it has Coverage_Percentage >= threshold and, unless the
\* selector is "All Regions", the selected region.
C1_FilterSubsequence ==
  rendered =>
    /\ \A i \in 1..(Len(filtered_df.rows) - 1) : filtered_df.index[i] < filtered_df.index[i + 1]
    /\ Len(filtered_df.index) = Len(filtered_df.rows)
    /\ \A i \in 1..Len(filtered_df.rows) :
         /\ filtered_df.index[i] + 1 \in 1..Len(df.rows)
         /\ filtered_df.rows[i] = df.rows[filtered_df.index[i] + 1]
         /\ filtered_df.rows[i].Coverage_Percentage >= coverage_threshold * Resolution
         /\ (selected_region = "All Regions" \/ filtered_df.rows[i].Region = selected_region)

\* a run where both the region test and the coverage test removed rows and
\* some rows survived
C1_Witness ==
  /\ rendered
  /\ selected_region # "All Regions"
  /\ Len(filtered_df.rows) > 0
  /\ \E i \in 1..Len(df.rows) :
       df.rows[i].Region = selected_region
       /\ df.rows[i].Coverage_Percentage < coverage_threshold * Resolution
  /\ \E i \in 1..Len(df.rows) :
       df.rows[i].Region # selected_region
       /\ df.rows[i].Coverage_Percentage >= coverage_threshold * Resolution

\* C2: the CSV export has exactly the seven documented columns, in that
\* order, and one line per filtered record.
C2_CsvColumns ==
  rendered =>
    /\ csv.header = DocumentedCsvColumns
    /\ Len(csv.lines) = Len(filtered_df.rows)
    /\ \A i \in 1..Len(csv.lines) : Len(csv.lines[i]) = Len(DocumentedCsvColumns)

\* C3: each of the four metrics carries as delta its value over the filtered
\* set minus its value over the full dataset (as rendered, to one decimal);
\* with "All Regions" and threshold 0 every delta is zero.
C3_DeltasAgainstBaseline ==
  rendered =>
    /\ metrics[1].delta =
         Fmt1(FSub(MeanCol(filtered_df.rows, "Coverage_Percentage"),
                   MeanCol(df.rows, "Coverage_Percentage"))) \o "%"
    /\ metrics[2].delta =
         Fmt1(<<SumCol(filtered_df.rows, "Connected_Users", 1)
                  - SumCol(df.rows, "Connected_Users", 1), 1000000>>) \o "M"
    /\ metrics[3].delta =
         Fmt1(FSub(MeanCol(filtered_df.rows, "Avg_Speed_Mbps"),
                   MeanCol(df.rows, "Avg_Speed_Mbps"))) \o " Mbps"
    /\ metrics[4].delta =
         Fmt1(FSub(MeanCol(filtered_df.rows, "Latency_ms"),
                   MeanCol(df.rows, "Latency_ms"))) \o " ms"
    /\ (selected_region = "All Regions" /\ coverage_threshold = 0) =>
         /\ metrics[1].delta = "0.0%"
         /\ metrics[2].delta = "0.0M"
         /\ metrics[3].delta = "0.0 Mbps"
         /\ metrics[4].delta = "0.0 ms"

\* C4: once the script has run, no later run executes the generator body
\* again (it runs at most once), and the dataset every later run reads, and
\* the cached one, are the ones of the first run.
C4_GeneratedOnce ==
  [][/\ generations' <= 1
     /\ rendered => (df' = df /\ cache' = cache /\ generations' = generations)]_vars

\* a rerun with changed filters has happened
C4_Witness ==
  /\ rendered
  /\ generations = 1
  /\ selected_region # "All Regions"
  /\ coverage_threshold # 0
  /\ filtered_df # df

\* C5: the dataset has exactly 37 records, one per (region, state) pair of
\* the static mapping (7+6+7+5+6+6), and every record has
\* Connected_Users <= Population and 20 <= Coverage_Percentage < 95.
C5_DatasetShape ==
  rendered =>
    /\ Len(df.rows) = 37
    /\ \A i, j \in 1..Len(df.rows) :
         (df.rows[i].Region = df.rows[j].Region /\ df.rows[i].State = df.rows[j].State)
           => i = j
    /\ \A r \in 1..Len(regions) :
         /\ {df.rows[i].State : i \in {k \in 1..Len(df.rows) : df.rows[k].Region = regions[r].name}}
              = Range(regions[r].states)
         /\ Cardinality({k \in 1..Len(df.rows) : df.rows[k].Region = regions[r].name})
              = <<7, 6, 7, 5, 6, 6>>[r]
    /\ \A i \in 1..Len(df.rows) :
         /\ df.rows[i].Connected_Users <= df.rows[i].Population
         /\ df.rows[i].Coverage_Percentage >= 20 * Resolution
         /\ df.rows[i].Coverage_Percentage < 95 * Resolution

\* a generated dataset holding the extreme draws: the lowest coverage (20),
\* the highest one below 95, the largest population
C5_Witness ==
  /\ rendered
  /\ generations = 1
  /\ \E i \in 1..Len(df.rows) : df.rows[i].Coverage_Percentage = 20 * Resolution
  /\ \E i \in 1..Len(df.rows) : df.rows[i].Coverage_Percentage = 95 * Resolution - 1
  /\ \E i \in 1..Len(df.rows) : df.rows[i].Population = 7999999

\* C6: the per-region Connected_Users sums, over the regions of the
\* aggregation, add up to the sum over the filtered set, and the regions of
\* the aggregation are exactly those with a surviving record.
C6_AggregationTotal ==
  rendered =>
    /\ SumCol(regional_users.rows, "Connected_Users", 1)
         = SumCol(filtered_df.rows, "Connected_Users", 1)
    /\ SumCol(regional_avg.rows, "Connected_Users", 1)
         = SumCol(filtered_df.rows, "Connected_Users", 1)
    /\ {regional_users.rows[i].Region : i \in 1..Len(regional_users.rows)}
         = {filtered_df.rows[i].Region : i \in 1..Len(filtered_df.rows)}
    /\ {regional_avg.rows[i].Region : i \in 1..Len(regional_avg.rows)}
         = {filtered_df.rows[i].Region : i \in 1..Len(filtered_df.rows)}
    /\ \A i \in 1..Len(regional_avg.rows) : regional_avg.rows[i].State > 0

\* all regions selected, several regions aggregated, one region left without
\* a surviving record
C6_Witness ==
  /\ rendered
  /\ selected_region = "All Regions"
  /\ Len(regional_users.rows) > 1
  /\ Len(regional_users.rows) < Len(regions)
  /\ \E r \in Range(SortedRegionNames) :
       \A i \in 1..Len(regional_users.rows) : regional_users.rows[i].Region # r

\* C7: with threshold 100 the filtered set is empty, and the metrics are
\* rendered all the same: the three means as NaN, the users sum as 0.
C7_EmptySetMetrics ==
  (rendered /\ coverage_threshold = 100) =>
    /\ filtered_df.rows = <<>>
    /\ Len(metrics) = 4
    /\ metrics[1].value = "nan%"
    /\ metrics[2].value = "0"
    /\ metrics[3].value = "nan Mbps"
    /\ metrics[4].value = "nan ms"

\* a run with threshold 100, with all regions and with one region
C7_Witness ==
  /\ rendered
  /\ coverage_threshold = 100
  /\ selected_region # "All Regions"
  /\ Len(df.rows) > 0

\* C8: with "All Regions" and threshold 0 the filtered set is the dataset:
\* same columns, same row labels, same rows in the same order.
C8_NoFilterIsIdentity ==
  (rendered /\ selected_region = "All Regions" /\ coverage_threshold = 0) =>
    /\ filtered_df.columns = df.columns
    /\ filtered_df.index = df.index
    /\ filtered_df.rows = df.rows

\* a rerun that came back to "All Regions" and 0 (the jitter of a smaller
\* filtered set has moved the random source by then)
C8_Witness ==
  /\ rendered
  /\ selected_region = "All Regions"
  /\ coverage_threshold = 0
  /\ Len(df.rows) = 37
  /\ map_df.rows # <<>>

\* C9: filtering the filtered set again with the same selector and threshold
\* gives the filtered set: same columns, row labels and rows.
C9_FilterIdempotent ==
  rendered =>
    /\ Filter(filtered_df, selected_region, coverage_threshold).columns = filtered_df.columns
    /\ Filter(filtered_df, selected_region, coverage_threshold).index = filtered_df.index
    /\ Filter(filtered_df, selected_region, coverage_threshold).rows = filtered_df.rows

\* a run whose filter removed some rows and kept some
C9_Witness ==
  /\ rendered
  /\ selected_region # "All Regions"
  /\ coverage_threshold > 0
  /\ Len(filtered_df.rows) > 1
  /\ Len(filtered_df.rows) < Len(df.rows)

\* C10: the map frame is the filtered set plus the columns lat and lon; the
\* filtered set, the dataset and the cached dataset keep exactly the data
\* columns (so the CSV written afterwards has them only), and every lat and
\* lon is within 1 degree of the centroid of the row's region.
C10_JitterFrame ==
  rendered =>
    /\ map_df.columns = filtered_df.columns \o <<"lat", "lon">>
    /\ map_df.index = filtered_df.index
    /\ Len(map_df.rows) = Len(filtered_df.rows)
    /\ filtered_df.columns = DataColumns
    /\ df.columns = DataColumns
    /\ cache = <<df>>
    /\ csv.header = DataColumns
    /\ \A i \in 1..Len(df.rows) : DOMAIN df.rows[i] = Range(DataColumns)
    /\ \A i \in 1..Len(filtered_df.rows) :
         /\ DOMAIN filtered_df.rows[i] = Range(DataColumns)
         /\ DOMAIN map_df.rows[i] = Range(DataColumns) \cup {"lat", "lon"}
         /\ \A c \in Range(DataColumns) : map_df.rows[i][c] = filtered_df.rows[i][c]
         /\ map_df.rows[i].lat - nigeria_coords[map_df.rows[i].Region].lat * Resolution
              \in (0 - 2 * Resolution)..(2 * Resolution)
         /\ map_df.rows[i].lon - nigeria_coords[map_df.rows[i].Region].lon * Resolution
              \in (0 - 2 * Resolution)..(2 * Resolution)

\* a map frame with rows jittered to both sides of the centroid, one of them
\* a full degree away
C10_Witness ==
  /\ rendered
  /\ \E i \in 1..Len(map_df.rows) :
       map_df.rows[i].lat - nigeria_coords[map_df.rows[i].Region].lat * Resolution
         = 0 - 2 * Resolution
  /\ \E i \in 1..Len(map_df.rows) :
       map_df.rows[i].lon > nigeria_coords[map_df.rows[i].Region].lon * Resolution

====
